---- MODULE Spec2Model ----
(***************************************************************************)
(* Dialect data types of the KingbaseES (kingbase8) and DM (dmdb) dialects *)
(* and the Postgres jsonPathExtractionQuery, as a state machine: one       *)
(* data-type instance (this), the module-level hstore variable, and the    *)
(* name, argument, result and warning of the last call.                    *)
(***************************************************************************)
EXTENDS Integers, Sequences, FiniteSets, TLC

VARIABLES
  this,     \* the data-type instance the methods are called on (NoInstance before any `new`)
  hstore,   \* kingbase8 data-types: `let hstore;` (module level)
  before,   \* the instance as the last call found it (for `new`: as super(..) left it)
  op,       \* the last call, e.g. "TEXT.toSql"
  args,     \* the arguments of the last call
  ret,      \* what the last call returned (or the Error it threw)
  warned    \* the texts the last call passed to warn(), in order (without their backquotes)

vars == <<this, hstore, before, op, args, ret, warned>>

(***************************************************************************)
(* Bounds of the model                                                     *)
(***************************************************************************)
MaxLength == 1      \* lengths, decimals and srids are drawn from 0..MaxLength
MaxByte == 2        \* the bytes of a Buffer are drawn from 0..MaxByte
MaxBufLen == 2      \* Buffers have at most MaxBufLen bytes
MaxNum == 2         \* number arguments are drawn from -1..MaxNum

(***************************************************************************)
(* JavaScript values: one record shape for all of them, t is the kind.     *)
(***************************************************************************)
\* n: the number, s: the text, b: the bytes of a Buffer (or the characters of
\* a text given by its characters), e: the elements of an array or object
JS(t, n, s, b) == [t |-> t, n |-> n, s |-> s, b |-> b, e |-> <<>>]
Undefined == JS("undefined", 0, "", <<>>)
Null == JS("null", 0, "", <<>>)
Bool(x) == JS("boolean", IF x THEN 1 ELSE 0, "", <<>>)
Num(n) == JS("number", n, "", <<>>)
Str(s) == JS("string", 0, s, <<>>)
Buf(b) == JS("buffer", 0, "", b)
Infinity == JS("number", 0, "Infinity", <<>>)
NegInfinity == JS("number", 0, "-Infinity", <<>>)
NaN == JS("number", 0, "NaN", <<>>)
\* new Date(v): a Date object built from the value v
newDate(v) == [t |-> "date", n |-> 0, s |-> "", b |-> <<>>, e |-> <<v>>]
\* a plain object / the result of JSON-like data, named by s
Obj(s) == JS("object", 0, s, <<>>)
\* an Error thrown with message s
Thrown(s) == JS("throw", 0, s, <<>>)
\* the value a call into the host ORM's base class or a library returns:
\* fn applied to the value v (v is kept as its kind, number and text)
Delegated(fn, v) == [t |-> "delegated", n |-> 0, s |-> fn, b |-> <<>>, e |-> <<[v EXCEPT !.e = <<>>]>>]
\* [e1, e2, ..]
Arr(es) == [t |-> "array", n |-> 0, s |-> "", b |-> <<>>, e |-> es]
\* the text pre + String(v) + post, keeping what v was made from
Template(pre, v, post) == [v EXCEPT !.t = "string", !.s = pre \o v.s \o post]

typeof(v) ==
  CASE v.t = "undefined" -> "undefined"
    [] v.t = "boolean" -> "boolean"
    [] v.t = "number" -> "number"
    [] v.t = "string" -> "string"
    [] OTHER -> "object"

\* ToBoolean: what `if (v)`, `!v`, `a || b` see
Truthy(v) ==
  CASE v.t \in {"undefined", "null"} -> FALSE
    [] v.t = "boolean" -> v.n = 1
    [] v.t = "number" -> IF v.s = "" THEN v.n # 0 ELSE v.s # "NaN"
    [] v.t = "string" -> v.s # ""
    [] OTHER -> TRUE

isBuffer(v) == v.t = "buffer"

\* String(v), as a template literal `${v}` converts v
ToStr(v) ==
  CASE v.t = "string" -> v.s
    [] v.t = "number" -> IF v.s = "" THEN ToString(v.n) ELSE v.s
    [] v.t = "boolean" -> IF v.n = 1 THEN "true" ELSE "false"
    [] v.t = "undefined" -> "undefined"
    [] v.t = "null" -> "null"
    [] OTHER -> "[" \o v.t \o " " \o v.s \o "]"

\* String.prototype.toLowerCase on the strings the model draws
toLowerCase(s) ==
  CASE s \in {"Infinity", "INFINITY"} -> "infinity"
    [] s \in {"-Infinity", "-INFINITY"} -> "-infinity"
    [] s = "TRUE" -> "true"
    [] s = "INTEGER" -> "integer"
    [] s = "DECIMAL" -> "decimal"
    [] s = "DATE" -> "date"
    [] s = "DATEONLY" -> "dateonly"
    [] s = "BIGINT" -> "bigint"
    [] s = "STRING" -> "string"
    [] OTHER -> s

\* the options object of a call: undefined, or an object whose raw is r
Options(r) == JS("object", IF r THEN 1 ELSE 0, "options", <<>>)
OptionsInputs == {Undefined, Options(FALSE), Options(TRUE)}
\* (!options || options && !options.raw)
NotRaw(options) == ~Truthy(options) \/ (Truthy(options) /\ options.n # 1)

(***************************************************************************)
(* Data-type instances                                                     *)
(***************************************************************************)
Instance(dialect, key) ==
  [dialect |-> dialect, key |-> key,
   _length |-> Undefined, options |-> [length |-> Undefined],
   _unsigned |-> Undefined, _zerofill |-> Undefined, _decimals |-> Undefined,
   _binary |-> Undefined, type |-> Undefined, srid |-> Undefined,
   sqlType |-> Undefined, _subtype |-> Undefined, values |-> Undefined]

NoInstance == Instance("none", "none")

Is(dialect, key) == this.dialect = dialect /\ this.key = key

LengthInputs == {Undefined} \cup {Num(n) : n \in 0..MaxLength}
FlagInputs == {Undefined, Bool(FALSE), Bool(TRUE)}

\* a call's outcome: the instance afterwards, the value returned, the warning
Outcome(self, r, w) == [self |-> self, ret |-> r, warn |-> w]

(***************************************************************************)
(* kingbase8: removeUnsupportedIntegerOptions                              *)
(***************************************************************************)
IntegerWarning(key) ==
  "KingbaseES does not support '" \o key
    \o "' with LENGTH, UNSIGNED or ZEROFILL. Plain '" \o key \o "' will be used instead."

\* as removeUnsupportedIntegerOptions, the test leaving out options.length
removeUnsupportedIntegerOptions_noOptionsLength(dataType) ==
  IF Truthy(dataType._length) \/ Truthy(dataType._unsigned) \/ Truthy(dataType._zerofill)
  THEN Outcome([dataType EXCEPT !._length = Undefined,
                                !.options.length = Undefined,
                                !._unsigned = Undefined,
                                !._zerofill = Undefined],
               Undefined, <<IntegerWarning(dataType.key)>>)
  ELSE Outcome(dataType, Undefined, <<>>)

removeUnsupportedIntegerOptions(dataType) ==
  IF Truthy(dataType._length) \/ Truthy(dataType.options.length)
       \/ Truthy(dataType._unsigned) \/ Truthy(dataType._zerofill)
  THEN Outcome([dataType EXCEPT !._length = Undefined,
                                !.options.length = Undefined,
                                !._unsigned = Undefined,
                                !._zerofill = Undefined],
               Undefined, <<IntegerWarning(dataType.key)>>)
  ELSE Outcome(dataType, Undefined, <<>>)

IntegerClasses == {"TINYINT", "SMALLINT", "INTEGER", "BIGINT", "REAL", "DOUBLE PRECISION"}

\* what super(length) leaves on the instance: the fields the base NUMBER
\* constructor records, each any of the values it can hold
BaseNumber(key, l, ol, u, z, d) ==
  [Instance("kingbase8", key) EXCEPT !._length = l, !.options.length = ol,
                                     !._unsigned = u, !._zerofill = z, !._decimals = d]

\* `new X(..)`: base is the instance as super(..) left it, out what the
\* constructor body made of it
Construct(name, base, out) ==
  /\ this' = out.self
  /\ before' = base
  /\ op' = "new " \o name
  /\ args' = <<>>
  /\ ret' = out.ret
  /\ warned' = out.warn

\* a method call on `this`, or a static call (which leaves out.self = this)
Call(name, a, out) ==
  /\ this' = out.self
  /\ before' = this
  /\ op' = name
  /\ args' = a
  /\ ret' = out.ret
  /\ warned' = out.warn

\* new TINYINT(..) / SMALLINT / INTEGER / BIGINT / REAL / DOUBLE
NewInteger ==
  \E key \in IntegerClasses, l \in LengthInputs, ol \in LengthInputs,
     u \in FlagInputs, z \in FlagInputs :
    LET base == BaseNumber(key, l, ol, u, z, Undefined)
    IN /\ Construct(key, base, removeUnsupportedIntegerOptions(base))
       /\ UNCHANGED hstore

(***************************************************************************)
(* kingbase8: classes that keep the base constructor.  What super(..)      *)
(* records is any value the field can hold.                                *)
(***************************************************************************)
PlainClasses == {"DATEONLY", "DECIMAL", "STRING", "TEXT", "CITEXT", "CHAR", "BOOLEAN",
                 "DATE", "BLOB", "ENUM"}

NewPlain ==
  \E key \in PlainClasses, l \in LengthInputs, b \in {Undefined, Bool(TRUE)} :
    LET base == [Instance("kingbase8", key) EXCEPT
                   !._length = IF key \in {"STRING", "TEXT", "CHAR", "BLOB", "DATE"}
                               THEN l ELSE Undefined,
                   !._binary = IF key \in {"STRING", "CHAR"} THEN b ELSE Undefined]
    IN /\ (key \notin {"STRING", "TEXT", "CHAR", "BLOB", "DATE"} => l = Undefined)
       /\ (key \notin {"STRING", "CHAR"} => b = Undefined)
       /\ Construct(key, base, Outcome(base, Undefined, <<>>))
       /\ UNCHANGED hstore

(***************************************************************************)
(* kingbase8: DATEONLY                                                     *)
(***************************************************************************)
DateValues ==
  {Infinity, NegInfinity, Str("infinity"), Str("-infinity"), Str("Infinity"),
   Str("-INFINITY"), Str("2020-01-01"), Str(""), Null, Undefined, Num(0), Num(1),
   newDate(Str("2020-01-01"))}

\* the text the driver hands to DATEONLY.parse
DateTexts == {Str("infinity"), Str("-infinity"), Str("Infinity"), Str("2020-01-01")}

DATEONLY_stringify(self, value, options) ==
  IF value = Infinity THEN Outcome(self, Str("Infinity"), <<>>)
  ELSE IF value = NegInfinity THEN Outcome(self, Str("-Infinity"), <<>>)
  ELSE Outcome(self, Delegated("BaseTypes.DATEONLY._stringify", value), <<>>)

DATEONLY_sanitize(self, value, options) ==
  IF NotRaw(options) /\ value # Infinity /\ value # NegInfinity
  THEN IF typeof(value) = "string" /\ toLowerCase(value.s) = "infinity"
       THEN Outcome(self, Infinity, <<>>)
       ELSE IF typeof(value) = "string" /\ toLowerCase(value.s) = "-infinity"
       THEN Outcome(self, NegInfinity, <<>>)
       ELSE Outcome(self, Delegated("BaseTypes.DATEONLY._sanitize", value), <<>>)
  ELSE Outcome(self, value, <<>>)

DATEONLY_parse(value) ==
  IF value = Str("infinity") THEN Infinity
  ELSE IF value = Str("-infinity") THEN NegInfinity
  ELSE value

CallDATEONLY_stringify ==
  \E value \in DateValues, options \in OptionsInputs :
    /\ Is("kingbase8", "DATEONLY")
    /\ Call("DATEONLY._stringify", <<value, options>>, DATEONLY_stringify(this, value, options))
    /\ UNCHANGED hstore

CallDATEONLY_sanitize ==
  \E value \in DateValues, options \in OptionsInputs :
    /\ Is("kingbase8", "DATEONLY")
    /\ Call("DATEONLY._sanitize", <<value, options>>, DATEONLY_sanitize(this, value, options))
    /\ UNCHANGED hstore

CallDATEONLY_parse ==
  \E value \in DateTexts :
    /\ Call("DATEONLY.parse", <<value>>, Outcome(this, DATEONLY_parse(value), <<>>))
    /\ UNCHANGED hstore

(***************************************************************************)
(* kingbase8: DECIMAL, CITEXT, ENUM (parse returns the value as it came)   *)
(***************************************************************************)
TextValues == {Str("1.50"), Null}

DECIMAL_parse(value) == value
CITEXT_parse(value) == value
ENUM_parse(value) == value

CallDECIMAL_parse ==
  \E value \in TextValues :
    /\ Call("DECIMAL.parse", <<value>>, Outcome(this, DECIMAL_parse(value), <<>>))
    /\ UNCHANGED hstore

CallCITEXT_parse ==
  \E value \in TextValues :
    /\ Call("CITEXT.parse", <<value>>, Outcome(this, CITEXT_parse(value), <<>>))
    /\ UNCHANGED hstore

CallENUM_parse ==
  \E value \in TextValues :
    /\ Call("ENUM.parse", <<value>>, Outcome(this, ENUM_parse(value), <<>>))
    /\ UNCHANGED hstore

(***************************************************************************)
(* kingbase8: STRING, CHAR, TEXT, BLOB                                     *)
(***************************************************************************)
STRING_toSql(self) ==
  IF Truthy(self._binary) THEN Outcome(self, Str("BYTEA"), <<>>)
  ELSE Outcome(self, Delegated("BaseTypes.STRING.toSql", self._length), <<>>)

CHAR_toSql(self) ==
  IF Truthy(self._binary) THEN Outcome(self, Str("BYTEA"), <<>>)
  ELSE Outcome(self, Delegated("BaseTypes.CHAR.toSql", self._length), <<>>)

\* as TEXT_toSql, clearing _length whatever it holds
TEXT_toSql_alwaysClear(self) ==
  Outcome([self EXCEPT !._length = Undefined], Str("TEXT"),
          IF Truthy(self._length)
          THEN <<"KingbaseES does not support TEXT with options. Plain TEXT will be used instead.">>
          ELSE <<>>)

TEXT_toSql(self) ==
  IF Truthy(self._length)
  THEN Outcome([self EXCEPT !._length = Undefined], Str("TEXT"),
               <<"KingbaseES does not support TEXT with options. Plain TEXT will be used instead.">>)
  ELSE Outcome(self, Str("TEXT"), <<>>)

BLOB_toSql(self) ==
  IF Truthy(self._length)
  THEN Outcome([self EXCEPT !._length = Undefined], Str("BYTEA"),
               <<"KingbaseES does not support BLOB (BYTEA) with options. Plain BYTEA will be used instead.">>)
  ELSE Outcome(self, Str("BYTEA"), <<>>)

HexValues == {"", "00", "ff0a"}

BLOB_hexify(hex) == Str("E'\\\\x" \o hex \o "'")

CallSTRING_toSql ==
  /\ Is("kingbase8", "STRING")
  /\ Call("STRING.toSql", <<>>, STRING_toSql(this))
  /\ UNCHANGED hstore

CallCHAR_toSql ==
  /\ Is("kingbase8", "CHAR")
  /\ Call("CHAR.toSql", <<>>, CHAR_toSql(this))
  /\ UNCHANGED hstore

CallTEXT_toSql ==
  /\ Is("kingbase8", "TEXT")
  /\ Call("TEXT.toSql", <<>>, TEXT_toSql(this))
  /\ UNCHANGED hstore

CallBLOB_toSql ==
  /\ Is("kingbase8", "BLOB")
  /\ Call("BLOB.toSql", <<>>, BLOB_toSql(this))
  /\ UNCHANGED hstore

CallBLOB_hexify ==
  \E hex \in HexValues :
    /\ Is("kingbase8", "BLOB")
    /\ Call("BLOB._hexify", <<Str(hex)>>, Outcome(this, BLOB_hexify(hex), <<>>))
    /\ UNCHANGED hstore

(***************************************************************************)
(* kingbase8: BOOLEAN                                                      *)
(***************************************************************************)
Buffers == UNION {[1..n -> 0..MaxByte] : n \in 0..MaxBufLen}

BoolValues ==
  {Str(x) : x \in {"true", "t", "false", "f", "TRUE", "1", ""}}
    \cup {Num(n) : n \in -1..MaxNum} \cup {NaN, Null, Undefined, Bool(TRUE), Bool(FALSE)}
    \cup {Buf(b) : b \in Buffers}

BOOLEAN_toSql(self) == Outcome(self, Str("BOOLEAN"), <<>>)

\* as BOOLEAN_sanitize, comparing the string whatever its case
BOOLEAN_sanitize_anyCase(value) ==
  IF value # Null /\ value # Undefined
  THEN LET v == IF isBuffer(value) /\ Len(value.b) = 1 THEN Num(value.b[1]) ELSE value
       IN IF typeof(v) = "string"
          THEN IF toLowerCase(v.s) \in {"true", "t"} THEN Bool(TRUE)
               ELSE IF toLowerCase(v.s) \in {"false", "f"} THEN Bool(FALSE)
               ELSE v
          ELSE IF typeof(v) = "number"
          THEN IF v = Num(1) THEN Bool(TRUE)
               ELSE IF v = Num(0) THEN Bool(FALSE)
               ELSE v
          ELSE v
  ELSE value

BOOLEAN_sanitize(value) ==
  IF value # Null /\ value # Undefined
  THEN LET v == IF isBuffer(value) /\ Len(value.b) = 1 THEN Num(value.b[1]) ELSE value
       IN IF typeof(v) = "string"
          THEN IF v.s \in {"true", "t"} THEN Bool(TRUE)
               ELSE IF v.s \in {"false", "f"} THEN Bool(FALSE)
               ELSE v
          ELSE IF typeof(v) = "number"
          THEN IF v = Num(1) THEN Bool(TRUE)
               ELSE IF v = Num(0) THEN Bool(FALSE)
               ELSE v
          ELSE v
  ELSE value

\* BOOLEAN.parse = BOOLEAN.prototype._sanitize
BOOLEAN_parse(value) == BOOLEAN_sanitize(value)

CallBOOLEAN_toSql ==
  /\ Is("kingbase8", "BOOLEAN")
  /\ Call("BOOLEAN.toSql", <<>>, BOOLEAN_toSql(this))
  /\ UNCHANGED hstore

CallBOOLEAN_sanitize ==
  \E value \in BoolValues :
    /\ Is("kingbase8", "BOOLEAN")
    /\ Call("BOOLEAN._sanitize", <<value>>, Outcome(this, BOOLEAN_sanitize(value), <<>>))
    /\ UNCHANGED hstore

CallBOOLEAN_parse ==
  \E value \in BoolValues :
    /\ Call("BOOLEAN.parse", <<value>>, Outcome(this, BOOLEAN_parse(value), <<>>))
    /\ UNCHANGED hstore

(***************************************************************************)
(* kingbase8: DATE                                                         *)
(***************************************************************************)
DATE_toSql(self) == Outcome(self, Str("TIMESTAMP WITH TIME ZONE"), <<>>)

DATE_validate(self, value) ==
  IF value # Infinity /\ value # NegInfinity
  THEN Outcome(self, Delegated("BaseTypes.DATE.validate", value), <<>>)
  ELSE Outcome(self, Bool(TRUE), <<>>)

DATE_stringify(self, value, options) ==
  IF value = Infinity THEN Outcome(self, Str("Infinity"), <<>>)
  ELSE IF value = NegInfinity THEN Outcome(self, Str("-Infinity"), <<>>)
  ELSE Outcome(self, Delegated("BaseTypes.DATE._stringify", value), <<>>)

DATE_sanitize(self, value, options) ==
  IF NotRaw(options) /\ value.t # "date" /\ Truthy(value)
       /\ value # Infinity /\ value # NegInfinity
  THEN IF typeof(value) = "string" /\ toLowerCase(value.s) = "infinity"
       THEN Outcome(self, Infinity, <<>>)
       ELSE IF typeof(value) = "string" /\ toLowerCase(value.s) = "-infinity"
       THEN Outcome(self, NegInfinity, <<>>)
       ELSE Outcome(self, newDate(value), <<>>)
  ELSE Outcome(self, value, <<>>)

CallDATE_toSql ==
  /\ Is("kingbase8", "DATE")
  /\ Call("DATE.toSql", <<>>, DATE_toSql(this))
  /\ UNCHANGED hstore

CallDATE_validate ==
  \E value \in DateValues :
    /\ Is("kingbase8", "DATE")
    /\ Call("DATE.validate", <<value>>, DATE_validate(this, value))
    /\ UNCHANGED hstore

CallDATE_stringify ==
  \E value \in DateValues, options \in OptionsInputs :
    /\ Is("kingbase8", "DATE")
    /\ Call("DATE._stringify", <<value, options>>, DATE_stringify(this, value, options))
    /\ UNCHANGED hstore

CallDATE_sanitize ==
  \E value \in DateValues, options \in OptionsInputs :
    /\ Is("kingbase8", "DATE")
    /\ Call("DATE._sanitize", <<value, options>>, DATE_sanitize(this, value, options))
    /\ UNCHANGED hstore

(***************************************************************************)
(* kingbase8: INTEGER.parse = parseInt(value, 10).  The text is a sequence *)
(* of characters.                                                          *)
(***************************************************************************)
Digits == <<"0", "1", "2", "3", "4", "5", "6", "7", "8", "9">>
IsDigit(c) == \E d \in 1..10 : Digits[d] = c
DigitValue(c) == (CHOOSE d \in 1..10 : Digits[d] = c) - 1

RECURSIVE SkipSpace(_)
SkipSpace(cs) == IF cs # <<>> /\ Head(cs) = " " THEN SkipSpace(Tail(cs)) ELSE cs

RECURSIVE ReadDigits(_, _)
ReadDigits(cs, acc) ==
  IF cs # <<>> /\ IsDigit(Head(cs))
  THEN ReadDigits(Tail(cs), acc * 10 + DigitValue(Head(cs)))
  ELSE acc

parseInt(cs) ==
  LET t == SkipSpace(cs)
      neg == t # <<>> /\ Head(t) = "-"
      u == IF t # <<>> /\ Head(t) \in {"-", "+"} THEN Tail(t) ELSE t
  IN IF u = <<>> \/ ~IsDigit(Head(u)) THEN NaN
     ELSE Num(IF neg THEN 0 - ReadDigits(u, 0) ELSE ReadDigits(u, 0))

\* a string given by its characters
Chars(cs) == JS("string", 0, "chars", cs)

IntTexts == {<<"4", "2">>, <<"-", "7">>, <<" ", "3">>, <<"5", "x">>, <<"x">>, <<>>}

INTEGER_parse(value) == parseInt(value.b)

CallINTEGER_parse ==
  \E cs \in IntTexts :
    /\ Call("INTEGER.parse", <<Chars(cs)>>, Outcome(this, INTEGER_parse(Chars(cs)), <<>>))
    /\ UNCHANGED hstore

(***************************************************************************)
(* kingbase8: FLOAT                                                        *)
(***************************************************************************)
FLOAT_decimals(self) ==
  IF Truthy(self._decimals)
  THEN Outcome([self EXCEPT !._length = Undefined, !.options.length = Undefined,
                            !._decimals = Undefined],
               Undefined,
               <<"KingbaseES does not support FLOAT with decimals. Plain FLOAT will be used instead.">>)
  ELSE Outcome(self, Undefined, <<>>)

FLOAT_unsigned(o) ==
  IF Truthy(o.self._unsigned)
  THEN Outcome([o.self EXCEPT !._unsigned = Undefined], Undefined,
               Append(o.warn, "KingbaseES does not support FLOAT unsigned. UNSIGNED was removed."))
  ELSE o

FLOAT_zerofill(o) ==
  IF Truthy(o.self._zerofill)
  THEN Outcome([o.self EXCEPT !._zerofill = Undefined], Undefined,
               Append(o.warn, "KingbaseES does not support FLOAT zerofill. ZEROFILL was removed."))
  ELSE o

\* the body of FLOAT's constructor after super(length, decimals)
FLOAT_constructor(self) == FLOAT_zerofill(FLOAT_unsigned(FLOAT_decimals(self)))

NewFLOAT ==
  \E l \in LengthInputs, ol \in LengthInputs, d \in LengthInputs,
     u \in FlagInputs, z \in FlagInputs :
    LET base == BaseNumber("FLOAT", l, ol, u, z, d)
    IN /\ Construct("FLOAT", base, FLOAT_constructor(base))
       /\ UNCHANGED hstore

(***************************************************************************)
(* kingbase8: GEOMETRY, GEOGRAPHY                                          *)
(***************************************************************************)
GeoTypes == {Undefined, Str("POINT"), Str("LINESTRING")}
Srids == {Undefined, Num(4326)}
GeoJson == {JS("object", 0, "{type:Point,coordinates:[1,2]}", <<>>), Null}
Wkb == {Str("0101000000000000000000f03f0000000000000040")}

NewGeo ==
  \E key \in {"GEOMETRY", "GEOGRAPHY"}, type \in GeoTypes, srid \in Srids :
    LET base == [Instance("kingbase8", key) EXCEPT !.type = type, !.srid = srid]
    IN /\ Construct(key, base, Outcome(base, Undefined, <<>>))
       /\ UNCHANGED hstore

\* result `(${type}` `,${srid}` `)` appended to the name
GeoSql(name, self) ==
  IF Truthy(self.type)
  THEN name \o "(" \o ToStr(self.type)
         \o (IF Truthy(self.srid) THEN "," \o ToStr(self.srid) ELSE "") \o ")"
  ELSE name

GEOMETRY_toSql(self) == Outcome(self, Str(GeoSql(self.key, self)), <<>>)
GEOGRAPHY_toSql(self) == Outcome(self, Str(GeoSql("GEOGRAPHY", self)), <<>>)

\* wkx.Geometry.parse(Buffer.from(value, 'hex')).toGeoJSON({ shortCrs: true })
GEOMETRY_parse(value) == Delegated("wkx.Geometry.parse.toGeoJSON", value)
GEOGRAPHY_parse(value) == Delegated("wkx.Geometry.parse.toGeoJSON", value)

\* `ST_GeomFromGeoJSON(${options.escape(JSON.stringify(value))})`
GEOMETRY_stringify(self, value, options) ==
  Outcome(self, Template("ST_GeomFromGeoJSON(", Delegated("options.escape(JSON.stringify", value), "))"),
          <<>>)
GEOGRAPHY_stringify(self, value, options) ==
  Outcome(self, Template("ST_GeomFromGeoJSON(", Delegated("options.escape(JSON.stringify", value), "))"),
          <<>>)

\* `ST_GeomFromGeoJSON(${options.bindParam(value)})`
GEOMETRY_bindParam(self, value, options) ==
  Outcome(self, Template("ST_GeomFromGeoJSON(", Delegated("options.bindParam", value), ")"), <<>>)
GEOGRAPHY_bindParam(self, value, options) ==
  Outcome(self, Template("ST_GeomFromGeoJSON(", Delegated("options.bindParam", value), ")"), <<>>)

CallGEOMETRY_toSql ==
  /\ Is("kingbase8", "GEOMETRY")
  /\ Call("GEOMETRY.toSql", <<>>, GEOMETRY_toSql(this))
  /\ UNCHANGED hstore

CallGEOGRAPHY_toSql ==
  /\ Is("kingbase8", "GEOGRAPHY")
  /\ Call("GEOGRAPHY.toSql", <<>>, GEOGRAPHY_toSql(this))
  /\ UNCHANGED hstore

CallGEOMETRY_parse ==
  \E value \in Wkb :
    /\ Call("GEOMETRY.parse", <<value>>, Outcome(this, GEOMETRY_parse(value), <<>>))
    /\ UNCHANGED hstore

CallGEOGRAPHY_parse ==
  \E value \in Wkb :
    /\ Call("GEOGRAPHY.parse", <<value>>, Outcome(this, GEOGRAPHY_parse(value), <<>>))
    /\ UNCHANGED hstore

CallGEOMETRY_stringify ==
  \E value \in GeoJson :
    /\ Is("kingbase8", "GEOMETRY")
    /\ Call("GEOMETRY._stringify", <<value, Options(FALSE)>>,
            GEOMETRY_stringify(this, value, Options(FALSE)))
    /\ UNCHANGED hstore

CallGEOGRAPHY_stringify ==
  \E value \in GeoJson :
    /\ Is("kingbase8", "GEOGRAPHY")
    /\ Call("GEOGRAPHY._stringify", <<value, Options(FALSE)>>,
            GEOGRAPHY_stringify(this, value, Options(FALSE)))
    /\ UNCHANGED hstore

CallGEOMETRY_bindParam ==
  \E value \in GeoJson :
    /\ Is("kingbase8", "GEOMETRY")
    /\ Call("GEOMETRY._bindParam", <<value, Options(FALSE)>>,
            GEOMETRY_bindParam(this, value, Options(FALSE)))
    /\ UNCHANGED hstore

CallGEOGRAPHY_bindParam ==
  \E value \in GeoJson :
    /\ Is("kingbase8", "GEOGRAPHY")
    /\ Call("GEOGRAPHY.bindParam", <<value, Options(FALSE)>>,
            GEOGRAPHY_bindParam(this, value, Options(FALSE)))
    /\ UNCHANGED hstore

(***************************************************************************)
(* kingbase8: HSTORE and the module-level hstore                           *)
(***************************************************************************)
\* require('./hstore')
HstoreModule == JS("object", 0, "./hstore", <<>>)

\* if (!hstore) { hstore = require('./hstore'); }
LoadHstore(h) == IF ~Truthy(h) THEN HstoreModule ELSE h

HstoreValues == {JS("object", 0, "{a:1}", <<>>), Str("a=>1")}

\* what a call leaves in hstore, and what it returns
HSTORE_value(h, value) ==
  [hstore |-> LoadHstore(h), ret |-> Delegated("hstore.stringify", value)]

HSTORE_stringify(h, value) ==
  [hstore |-> HSTORE_value(h, value).hstore,
   ret |-> Template("'", HSTORE_value(h, value).ret, "'")]

HSTORE_bindParam(h, value, options) ==
  [hstore |-> HSTORE_value(h, value).hstore,
   ret |-> Delegated("options.bindParam", HSTORE_value(h, value).ret)]

HSTORE_parse(h, value) ==
  [hstore |-> LoadHstore(h), ret |-> Delegated("hstore.parse", value)]

NewHSTORE ==
  LET base == Instance("kingbase8", "HSTORE")
  IN /\ Construct("HSTORE", base, Outcome(base, Undefined, <<>>))
     /\ hstore' = LoadHstore(hstore)

CallHSTORE_stringify ==
  \E value \in HstoreValues :
    /\ Is("kingbase8", "HSTORE")
    /\ Call("HSTORE._stringify", <<value>>,
            Outcome(this, HSTORE_stringify(hstore, value).ret, <<>>))
    /\ hstore' = HSTORE_stringify(hstore, value).hstore

CallHSTORE_bindParam ==
  \E value \in HstoreValues :
    /\ Is("kingbase8", "HSTORE")
    /\ Call("HSTORE._bindParam", <<value, Options(FALSE)>>,
            Outcome(this, HSTORE_bindParam(hstore, value, Options(FALSE)).ret, <<>>))
    /\ hstore' = HSTORE_bindParam(hstore, value, Options(FALSE)).hstore

CallHSTORE_parse ==
  \E value \in HstoreValues :
    /\ Call("HSTORE.parse", <<value>>, Outcome(this, HSTORE_parse(hstore, value).ret, <<>>))
    /\ hstore' = HSTORE_parse(hstore, value).hstore

(***************************************************************************)
(* kingbase8: RANGE                                                        *)
(***************************************************************************)
\* BaseTypes.RANGE.types.kingbase8.subtypes
subtypes(k) ==
  CASE k = "integer" -> Str("int4range")
    [] k = "decimal" -> Str("numrange")
    [] k = "date" -> Str("tstzrange")
    [] k = "dateonly" -> Str("daterange")
    [] k = "bigint" -> Str("int8range")
    [] OTHER -> Undefined

\* BaseTypes.RANGE.types.kingbase8.castTypes
castTypes(k) ==
  CASE k = "integer" -> Str("int4")
    [] k = "decimal" -> Str("numeric")
    [] k = "date" -> Str("timestamptz")
    [] k = "dateonly" -> Str("date")
    [] k = "bigint" -> Str("int8")
    [] OTHER -> Undefined

RangeSubtypes == {"INTEGER", "DATEONLY", "STRING"}

\* { value: v } (inclusive = 0), { value: v, inclusive: true } (1) or
\* { value: v, inclusive: false } (2)
Bound(v, inclusive) == [t |-> "object", n |-> inclusive, s |-> "bound", b |-> <<>>, e |-> <<v>>]
IsBound(v) == v.t = "object" /\ v.s = "bound"

BoundInputs ==
  {Num(1), Null, Infinity, NegInfinity, Bound(Num(2), 0), Bound(Num(2), 1), Bound(Null, 2)}

RangeValues ==
  {Num(1), Arr(<<>>)} \cup {Arr(<<x, y>>) : x \in BoundInputs, y \in {Num(3), Bound(Num(3), 1), Null}}

RANGE_toSql(self) == Outcome(self, subtypes(toLowerCase(self._subtype.s)), <<>>)
RANGE_toCastType(self) == castTypes(toLowerCase(self._subtype.s))

\* the value of one bound: _.isObject(value) && has own 'value' ? value.value : value
BoundValue(v) == IF IsBound(v) THEN v.e[1] ELSE v

\* one element of values.map(..): hasStringify is whether options.subtype.stringify is set
BoundStringified(v, hasStringify) ==
  IF BoundValue(v) \in {Null, NegInfinity, Infinity} THEN BoundValue(v)
  ELSE IF hasStringify THEN Delegated("options.subtype.stringify", BoundValue(v))
  ELSE Delegated("options.escape", BoundValue(v))

\* valueInclusivity[index] after the map: [true, false] overwritten by the bounds that say
Inclusivity(values, index) ==
  IF index <= Len(values) /\ IsBound(values[index]) /\ values[index].n # 0
  THEN Bool(values[index].n = 1)
  ELSE Bool(index = 1)

RANGE_value(self, values, hasStringify) ==
  IF values.t # "array"
  THEN IF hasStringify THEN Delegated("options.subtype.stringify", values)
       ELSE Thrown("TypeError: this.options.subtype.stringify is not a function")
  ELSE [t |-> "delegated", n |-> 0, s |-> "range.stringify", b |-> <<>>,
        e |-> [i \in 1..Len(values.e) |-> BoundStringified(values.e[i], hasStringify)]
                \o <<Inclusivity(values.e, 1), Inclusivity(values.e, 2)>>]

RANGE_stringify(self, values, hasStringify) ==
  IF RANGE_value(self, values, hasStringify).t = "throw"
  THEN Outcome(self, RANGE_value(self, values, hasStringify), <<>>)
  ELSE IF values.t # "array"
  THEN Outcome(self, Template("'", RANGE_value(self, values, hasStringify),
                              "'::" \o ToStr(RANGE_toCastType(self))), <<>>)
  ELSE Outcome(self, Template("'", RANGE_value(self, values, hasStringify), "'"), <<>>)

RANGE_bindParam(self, values, hasStringify) ==
  IF RANGE_value(self, values, hasStringify).t = "throw"
  THEN Outcome(self, RANGE_value(self, values, hasStringify), <<>>)
  ELSE IF values.t # "array"
  THEN Outcome(self, Template("", Delegated("options.bindParam", RANGE_value(self, values, hasStringify)),
                              "::" \o ToStr(RANGE_toCastType(self))), <<>>)
  ELSE Outcome(self, Delegated("options.bindParam", RANGE_value(self, values, hasStringify)), <<>>)

\* range.parse(value, options.parser)
RANGE_parse(value) == Delegated("range.parse", value)

NewRANGE ==
  \E subtype \in RangeSubtypes :
    LET base == [Instance("kingbase8", "RANGE") EXCEPT !._subtype = Str(subtype)]
    IN /\ Construct("RANGE", base, Outcome(base, Undefined, <<>>))
       /\ UNCHANGED hstore

CallRANGE_toSql ==
  /\ Is("kingbase8", "RANGE")
  /\ Call("RANGE.toSql", <<>>, RANGE_toSql(this))
  /\ UNCHANGED hstore

CallRANGE_stringify ==
  \E values \in RangeValues, hasStringify \in BOOLEAN :
    /\ Is("kingbase8", "RANGE")
    /\ Call("RANGE._stringify", <<values, Options(FALSE)>>, RANGE_stringify(this, values, hasStringify))
    /\ UNCHANGED hstore

CallRANGE_bindParam ==
  \E values \in RangeValues, hasStringify \in BOOLEAN :
    /\ Is("kingbase8", "RANGE")
    /\ Call("RANGE._bindParam", <<values, Options(FALSE)>>, RANGE_bindParam(this, values, hasStringify))
    /\ UNCHANGED hstore

CallRANGE_parse ==
  \E value \in {Str("[1,3)")} :
    /\ Call("RANGE.parse", <<value>>, Outcome(this, RANGE_parse(value), <<>>))
    /\ UNCHANGED hstore

(***************************************************************************)
(* kingbase8: the methods put on BaseTypes.ARRAY.prototype                 *)
(***************************************************************************)
\* this.type: none, or a data type; of these HSTORE and RANGE have _value and
\* escape === false
ElementTypes == {Undefined, Obj("HSTORE"), Obj("RANGE"), Obj("ENUM"), Obj("INTEGER")}
HasValueMethod(type) == type \in {Obj("HSTORE"), Obj("RANGE")}
EscapeIsFalse(type) == type \in {Obj("HSTORE"), Obj("RANGE")}

ArrayValues == {Arr(<<>>), Arr(<<Str("a")>>), Arr(<<Num(1), Num(2)>>)}

\* one element of values.map(..)
ARRAY_element(self, h, value, hasBindParam) ==
  IF hasBindParam /\ Truthy(self.type) /\ HasValueMethod(self.type)
  THEN IF self.type = Obj("HSTORE") THEN HSTORE_value(h, value).ret
       ELSE Delegated("this.type._value", value)
  ELSE IF Truthy(self.type)
  THEN IF EscapeIsFalse(self.type) THEN Delegated("this.type.stringify", value)
       ELSE Delegated("options.escape(this.type.stringify", value)
  ELSE Delegated("options.escape", value)

ARRAY_value(self, h, values, hasBindParam) ==
  [hstore |-> IF hasBindParam /\ self.type = Obj("HSTORE") /\ Len(values.e) > 0
              THEN HSTORE_value(h, values.e[1]).hstore ELSE h,
   ret |-> Arr([i \in 1..Len(values.e) |-> ARRAY_element(self, h, values.e[i], hasBindParam)])]

\* `::${castKey}`, for an ENUM element with the enum's quoted name and the schema
ArrayCast(self, useSchema) ==
  IF ~Truthy(self.type) THEN ""
  ELSE IF self.type = Obj("ENUM")
  THEN "::" \o (IF useSchema THEN "Utils.addTicks(table.schema)table.delimiter" ELSE "")
         \o "Utils.addTicks(Utils.generateEnumName())[]"
  ELSE "::" \o "this.toSql()"

ARRAY_stringify(self, h, values, hasBindParam, useSchema) ==
  [hstore |-> ARRAY_value(self, h, values, hasBindParam).hstore,
   ret |-> Template("ARRAY[", ARRAY_value(self, h, values, hasBindParam),
                    "]" \o ArrayCast(self, useSchema))]

ARRAY_bindParam(self, h, values, hasBindParam) ==
  [hstore |-> ARRAY_value(self, h, values, hasBindParam).hstore,
   ret |-> IF hasBindParam
           THEN Delegated("options.bindParam", ARRAY_value(self, h, values, hasBindParam).ret)
           ELSE Thrown("TypeError: options.bindParam is not a function")]

\* new ARRAY(type): an HSTORE element type is an HSTORE instance, constructed
NewARRAY ==
  \E type \in ElementTypes :
    LET base == [Instance("kingbase8", "ARRAY") EXCEPT !.type = type]
    IN /\ Construct("ARRAY", base, Outcome(base, Undefined, <<>>))
       /\ hstore' = IF type = Obj("HSTORE") THEN LoadHstore(hstore) ELSE hstore

CallARRAY_stringify ==
  \E values \in ArrayValues, hasBindParam \in BOOLEAN, useSchema \in BOOLEAN :
    /\ Is("kingbase8", "ARRAY")
    /\ Call("ARRAY._stringify", <<values, Options(FALSE)>>,
            Outcome(this, ARRAY_stringify(this, hstore, values, hasBindParam, useSchema).ret, <<>>))
    /\ hstore' = ARRAY_stringify(this, hstore, values, hasBindParam, useSchema).hstore

CallARRAY_bindParam ==
  \E values \in ArrayValues, hasBindParam \in BOOLEAN :
    /\ Is("kingbase8", "ARRAY")
    /\ Call("ARRAY._bindParam", <<values, Options(FALSE)>>,
            Outcome(this, ARRAY_bindParam(this, hstore, values, hasBindParam).ret, <<>>))
    /\ hstore' = ARRAY_bindParam(this, hstore, values, hasBindParam).hstore

(***************************************************************************)
(* dm: DECIMAL, DATE, DATEONLY, TIME, UUID, ENUM, JSON, BOOLEAN            *)
(***************************************************************************)
dm_DECIMAL_toSql(self) ==
  Outcome(self,
          Template("", Delegated("BaseTypes.DECIMAL.toSql", self._length),
                   (IF Truthy(self._unsigned) THEN " UNSIGNED" ELSE "")
                     \o (IF Truthy(self._zerofill) THEN " ZEROFILL" ELSE "")),
          <<>>)

\* new Array(n).fill('S').join(sep)
RECURSIVE FillJoin(_, _)
FillJoin(n, sep) ==
  IF n <= 0 THEN "" ELSE IF n = 1 THEN "S" ELSE FillJoin(n - 1, sep) \o sep \o "S"

\* a moment is used as it is, anything else goes through this._applyTimezone
IsMoment(v) == v.t = "object" /\ v.s = "moment"
Moments == {JS("object", 0, "moment", <<>>), newDate(Str("2020-01-01")), Str("2020-01-01")}
AsMoment(date) ==
  IF IsMoment(date) THEN date ELSE Delegated("this._applyTimezone", date)

dm_DATE_toSql(self) ==
  Outcome(self,
          IF Truthy(self._length) THEN Str("TIMESTAMP(" \o ToStr(self._length) \o ")")
          ELSE Str("TIMESTAMP"), <<>>)

\* join() without a separator joins with ','
dm_DATE_stringify(self, date, options) ==
  IF Truthy(self._length)
  THEN Outcome(self, Delegated("date.format YYYY-MM-DD HH:mm:ss." \o FillJoin(self._length.n, ","),
                               AsMoment(date)), <<>>)
  ELSE Outcome(self, Delegated("date.format YYYY-MM-DD HH:mm:ss", AsMoment(date)), <<>>)

\* momentTz.tz.zone(name): the zones the model knows by name
Timezones == {"+08:00", "Asia/Shanghai"}
IsZone(tz) == tz \in {"Asia/Shanghai", "UTC"}
\* what value.string() gives
ColumnTexts == {Null, Str("2020-01-01 00:00:00")}

dm_DATE_parse(value, timezone) ==
  IF value = Null THEN value
  ELSE IF IsZone(timezone) THEN Delegated("momentTz.tz.toDate " \o timezone, value)
  ELSE newDate(Str(value.s \o " " \o timezone))

dm_DATEONLY_parse(value) == value

dm_TIME_toSql(self) ==
  Outcome(self, Str("TIME" \o (IF Truthy(self._length) THEN "(" \o ToStr(self._length) \o ")" ELSE "")),
          <<>>)

dm_TIME_stringify(self, date, options) ==
  IF Truthy(self._length)
  THEN Outcome(self, Delegated("date.format HH:mm:ss." \o FillJoin(self._length.n, ""),
                               AsMoment(date)), <<>>)
  ELSE Outcome(self, Delegated("date.format HH:mm:ss", AsMoment(date)), <<>>)

dm_UUID_toSql(self) == Outcome(self, Str("CHAR(36) BINARY"), <<>>)

dm_BOOLEAN_toSql(self) == Outcome(self, Str("BIT"), <<>>)

\* `ENUM(${this.values.map(value => options.escape(value)).join(', ')})`
dm_ENUM_toSql(self, options) ==
  Outcome(self,
          Template("ENUM(", Arr([i \in 1..Len(self.values.e) |->
                                   Delegated("options.escape", self.values.e[i])]), ")"),
          <<>>)

\* options.operation === 'where' && typeof value === 'string' ? value : JSON.stringify(value)
dm_JSON_stringify(self, value, operation) ==
  IF operation = "where" /\ typeof(value) = "string" THEN Outcome(self, value, <<>>)
  ELSE Outcome(self, Delegated("JSON.stringify", value), <<>>)

dm_PlainClasses == {"DECIMAL", "DATE", "DATEONLY", "TIME", "UUID", "ENUM", "JSON", "BOOLEAN"}
EnumValues == {Arr(<<>>), Arr(<<Str("a"), Str("b")>>)}

dm_NewPlain ==
  \E key \in dm_PlainClasses, l \in LengthInputs, u \in {Undefined, Bool(TRUE)},
     z \in {Undefined, Bool(TRUE)}, values \in EnumValues :
    LET base == [Instance("dm", key) EXCEPT !._length = l, !._unsigned = u, !._zerofill = z,
                                            !.values = IF key = "ENUM" THEN values ELSE Undefined]
    IN /\ (key \notin {"DECIMAL", "DATE", "TIME"} => l = Undefined)
       /\ (key # "DECIMAL" => u = Undefined /\ z = Undefined)
       /\ (key # "ENUM" => values = Arr(<<>>))
       /\ Construct(key, base, Outcome(base, Undefined, <<>>))
       /\ UNCHANGED hstore

dm_CallDECIMAL_toSql ==
  /\ Is("dm", "DECIMAL")
  /\ Call("dm.DECIMAL.toSql", <<>>, dm_DECIMAL_toSql(this))
  /\ UNCHANGED hstore

dm_CallDATE_toSql ==
  /\ Is("dm", "DATE")
  /\ Call("dm.DATE.toSql", <<>>, dm_DATE_toSql(this))
  /\ UNCHANGED hstore

dm_CallDATE_stringify ==
  \E date \in Moments :
    /\ Is("dm", "DATE")
    /\ Call("dm.DATE._stringify", <<date, Options(FALSE)>>, dm_DATE_stringify(this, date, Options(FALSE)))
    /\ UNCHANGED hstore

dm_CallDATE_parse ==
  \E value \in ColumnTexts, timezone \in Timezones :
    /\ Call("dm.DATE.parse", <<value, Str(timezone)>>,
            Outcome(this, dm_DATE_parse(value, timezone), <<>>))
    /\ UNCHANGED hstore

dm_CallDATEONLY_parse ==
  \E value \in ColumnTexts :
    /\ Call("dm.DATEONLY.parse", <<value>>, Outcome(this, dm_DATEONLY_parse(value), <<>>))
    /\ UNCHANGED hstore

dm_CallTIME_toSql ==
  /\ Is("dm", "TIME")
  /\ Call("dm.TIME.toSql", <<>>, dm_TIME_toSql(this))
  /\ UNCHANGED hstore

dm_CallTIME_stringify ==
  \E date \in Moments :
    /\ Is("dm", "TIME")
    /\ Call("dm.TIME._stringify", <<date, Options(FALSE)>>, dm_TIME_stringify(this, date, Options(FALSE)))
    /\ UNCHANGED hstore

dm_CallUUID_toSql ==
  /\ Is("dm", "UUID")
  /\ Call("dm.UUID.toSql", <<>>, dm_UUID_toSql(this))
  /\ UNCHANGED hstore

dm_CallBOOLEAN_toSql ==
  /\ Is("dm", "BOOLEAN")
  /\ Call("dm.BOOLEAN.toSql", <<>>, dm_BOOLEAN_toSql(this))
  /\ UNCHANGED hstore

dm_CallENUM_toSql ==
  /\ Is("dm", "ENUM")
  /\ Call("dm.ENUM.toSql", <<Options(FALSE)>>, dm_ENUM_toSql(this, Options(FALSE)))
  /\ UNCHANGED hstore

dm_CallJSON_stringify ==
  \E value \in {Str("{}"), JS("object", 0, "{a:1}", <<>>)}, operation \in {"where", "insert"} :
    /\ Is("dm", "JSON")
    /\ Call("dm.JSON._stringify", <<value, Str(operation)>>, dm_JSON_stringify(this, value, operation))
    /\ UNCHANGED hstore

(***************************************************************************)
(* dm: GEOMETRY                                                            *)
(***************************************************************************)
SUPPORTED_GEOMETRY_TYPES == <<"POINT", "LINESTRING", "POLYGON">>

\* SUPPORTED_GEOMETRY_TYPES.join(', ')
RECURSIVE join(_, _)
join(seq, sep) ==
  IF seq = <<>> THEN "" ELSE IF Len(seq) = 1 THEN seq[1]
  ELSE seq[1] \o sep \o join(Tail(seq), sep)

\* as includes, stopping one element short
includes_offByOne(seq, v) == \E i \in 1..(Len(seq) - 1) : v = Str(seq[i])

\* SUPPORTED_GEOMETRY_TYPES.includes(v): SameValueZero against each element
includes(seq, v) == \E i \in 1..Len(seq) : v = Str(seq[i])

\* lodash _.isEmpty: null and undefined are empty; a string, array or Buffer
\* is empty when its length is 0; any other value is empty when it has no
\* own enumerable keys, which holds of every number and boolean
isEmpty(v) ==
  CASE v.t \in {"undefined", "null"} -> TRUE
    [] v.t = "string" -> v.s = "" /\ v.b = <<>>
    [] v.t = "array" -> v.e = <<>>
    [] v.t = "buffer" -> v.b = <<>>
    [] v.t \in {"number", "boolean"} -> TRUE
    [] OTHER -> v.e = <<>> /\ v.s = ""

dm_GeoTypes ==
  {Undefined, Null, Str(""), Str("POINT"), Str("LINESTRING"), Str("POLYGON"),
   Str("MULTIPOINT"), Str("GEOMETRYCOLLECTION"), Str("point"), Str("POINT "),
   Num(1), Bool(TRUE), Arr(<<>>), Arr(<<Str("POINT")>>)}

\* the constructor body after super(type, srid); a throw leaves no instance
dm_GEOMETRY_constructor(self) ==
  IF isEmpty(self.type) THEN Outcome([self EXCEPT !.sqlType = Str(self.key)], Undefined, <<>>)
  ELSE IF includes(SUPPORTED_GEOMETRY_TYPES, self.type)
  THEN Outcome([self EXCEPT !.sqlType = self.type], Undefined, <<>>)
  ELSE Outcome(this,
               Thrown("Supported geometry types are: " \o join(SUPPORTED_GEOMETRY_TYPES, ", ")),
               <<>>)

dm_GEOMETRY_toSql(self) == Outcome(self, self.sqlType, <<>>)

\* value.buffer() is null, or the bytes of the column
dm_GEOMETRY_parse(value) ==
  IF ~Truthy(value) \/ Len(value.b) = 0 THEN Null
  ELSE Delegated("wkx.Geometry.parse.toGeoJSON", Buf(SubSeq(value.b, 5, Len(value.b))))

dm_NewGEOMETRY ==
  \E type \in dm_GeoTypes, srid \in {Undefined} :
    LET base == [Instance("dm", "GEOMETRY") EXCEPT !.type = type, !.srid = srid]
    IN /\ Construct("dm.GEOMETRY", base, dm_GEOMETRY_constructor(base))
       /\ UNCHANGED hstore

dm_CallGEOMETRY_toSql ==
  /\ Is("dm", "GEOMETRY")
  /\ Call("dm.GEOMETRY.toSql", <<>>, dm_GEOMETRY_toSql(this))
  /\ UNCHANGED hstore

dm_CallGEOMETRY_parse ==
  \E value \in {Null, Buf(<<>>), Buf(<<0, 0, 0, 0, 1, 1>>)} :
    /\ Call("dm.GEOMETRY.parse", <<value>>, Outcome(this, dm_GEOMETRY_parse(value), <<>>))
    /\ UNCHANGED hstore

(***************************************************************************)
(* postgres: PostgresQueryGenerator.jsonPathExtractionQuery                *)
(***************************************************************************)
\* quoteIdentifier: the column between double quotes
quoteIdentifier(column) == "\"" \o column \o "\""

\* as jsonPathOperator, the two operators exchanged
jsonPathOperator_swapped(isJson) == IF Truthy(isJson) THEN "#>>" ELSE "#>"

\* the operator: #> gives JSON, #>> gives text
jsonPathOperator(isJson) == IF Truthy(isJson) THEN "#>" ELSE "#>>"

jsonPathExtractionQuery(column, path, isJson) ==
  Str("(" \o quoteIdentifier(column) \o jsonPathOperator(isJson) \o "'{" \o path \o "}'" \o ")")

Columns == {"profile", "data"}
Paths == {"id", "name"}

\* isJson, when passed, is the third argument; not passed it is undefined
pg_CallJsonPathExtractionQuery ==
  \E column \in Columns, path \in Paths, isJson \in {Undefined, Bool(FALSE), Bool(TRUE)} :
    /\ Call("jsonPathExtractionQuery",
            IF isJson = Undefined THEN <<Str(column), Str(path)>>
            ELSE <<Str(column), Str(path), isJson>>,
            Outcome(this, jsonPathExtractionQuery(column, path, isJson), <<>>))
    /\ UNCHANGED hstore

Init ==
  /\ this = NoInstance
  /\ hstore = Undefined
  /\ before = NoInstance
  /\ op = "load"
  /\ args = <<>>
  /\ ret = Undefined
  /\ warned = <<>>

\* every call of the two dialects' data types and of the query generator, on
\* the instances whose classes have methods of their own (the kingbase8
\* number types only have constructors: NextNumbers)
Next ==
  \/ NewPlain
  \/ pg_CallJsonPathExtractionQuery
  \/ dm_NewPlain
  \/ dm_NewGEOMETRY
  \/ dm_CallDECIMAL_toSql
  \/ dm_CallDATE_toSql
  \/ dm_CallDATE_stringify
  \/ dm_CallDATE_parse
  \/ dm_CallDATEONLY_parse
  \/ dm_CallTIME_toSql
  \/ dm_CallTIME_stringify
  \/ dm_CallUUID_toSql
  \/ dm_CallBOOLEAN_toSql
  \/ dm_CallENUM_toSql
  \/ dm_CallJSON_stringify
  \/ dm_CallGEOMETRY_toSql
  \/ dm_CallGEOMETRY_parse
  \/ NewARRAY
  \/ CallARRAY_stringify
  \/ CallARRAY_bindParam
  \/ NewRANGE
  \/ CallRANGE_toSql
  \/ CallRANGE_stringify
  \/ CallRANGE_bindParam
  \/ CallRANGE_parse
  \/ NewGeo
  \/ NewHSTORE
  \/ CallGEOMETRY_toSql
  \/ CallGEOGRAPHY_toSql
  \/ CallGEOMETRY_parse
  \/ CallGEOGRAPHY_parse
  \/ CallGEOMETRY_stringify
  \/ CallGEOGRAPHY_stringify
  \/ CallGEOMETRY_bindParam
  \/ CallGEOGRAPHY_bindParam
  \/ CallHSTORE_stringify
  \/ CallHSTORE_bindParam
  \/ CallHSTORE_parse
  \/ CallBOOLEAN_toSql
  \/ CallBOOLEAN_sanitize
  \/ CallBOOLEAN_parse
  \/ CallDATE_toSql
  \/ CallDATE_validate
  \/ CallDATE_stringify
  \/ CallDATE_sanitize
  \/ CallINTEGER_parse
  \/ CallDATEONLY_stringify
  \/ CallDATEONLY_sanitize
  \/ CallDATEONLY_parse
  \/ CallDECIMAL_parse
  \/ CallCITEXT_parse
  \/ CallENUM_parse
  \/ CallSTRING_toSql
  \/ CallCHAR_toSql
  \/ CallTEXT_toSql
  \/ CallBLOB_toSql
  \/ CallBLOB_hexify

Spec == Init /\ [][Next]_vars

\* the number types, whose constructors drop the options KingbaseES lacks
NextNumbers ==
  \/ NewInteger
  \/ NewFLOAT

SpecNumbers == Init /\ [][NextNumbers]_vars
(***************************************************************************)
(* Properties                                                              *)
(***************************************************************************)
\* the calls to toSql, _stringify, _sanitize, _bindParam, validate and parse
MethodCalls ==
  {"DATEONLY._stringify", "DATEONLY._sanitize", "DATEONLY.parse", "DECIMAL.parse",
   "CITEXT.parse", "ENUM.parse", "STRING.toSql", "CHAR.toSql", "TEXT.toSql", "BLOB.toSql",
   "BOOLEAN.toSql", "BOOLEAN._sanitize", "BOOLEAN.parse", "DATE.toSql", "DATE.validate",
   "DATE._stringify", "DATE._sanitize", "INTEGER.parse", "GEOMETRY.toSql", "GEOMETRY.parse",
   "GEOMETRY._stringify", "GEOMETRY._bindParam", "GEOGRAPHY.toSql", "GEOGRAPHY.parse",
   "GEOGRAPHY._stringify", "HSTORE._stringify", "HSTORE._bindParam", "HSTORE.parse",
   "RANGE.toSql", "RANGE._stringify", "RANGE._bindParam", "RANGE.parse",
   "ARRAY._stringify", "ARRAY._bindParam",
   "dm.DECIMAL.toSql", "dm.DATE.toSql", "dm.DATE._stringify", "dm.DATE.parse",
   "dm.DATEONLY.parse", "dm.TIME.toSql", "dm.TIME._stringify", "dm.UUID.toSql",
   "dm.BOOLEAN.toSql", "dm.ENUM.toSql", "dm.JSON._stringify", "dm.GEOMETRY.toSql",
   "dm.GEOMETRY.parse"}

\* C1, as stated: no call to toSql, _stringify, _sanitize, _bindParam, validate
\* or parse changes a field of the instance it is called on, nor the
\* module-level hstore.
C1_NoCallChangesState ==
  [][op' \in MethodCalls => (this' = this /\ hstore' = hstore)]_vars

\* C1, amended: a call to toSql, _stringify, _sanitize, _bindParam, validate or
\* parse leaves every field of the instance and the module-level hstore as
\* they were, with two exceptions: TEXT.toSql and BLOB.toSql of kingbase8,
\* called on an instance whose _length is truthy, set _length to undefined
\* (and nothing else); and HSTORE.parse, called while hstore is still unset,
\* sets hstore to the loaded ./hstore module.
C1_CallsChangeOnlyLengthAndHstore ==
  [][op' \in MethodCalls =>
       /\ (this' # this =>
             /\ op' \in {"TEXT.toSql", "BLOB.toSql"}
             /\ Truthy(this._length)
             /\ this' = [this EXCEPT !._length = Undefined])
       /\ (op' \in {"TEXT.toSql", "BLOB.toSql"} /\ Truthy(this._length) => this'._length = Undefined)
       /\ (hstore' # hstore =>
             /\ op' = "HSTORE.parse"
             /\ hstore = Undefined
             /\ hstore' = HstoreModule)
       /\ (op' = "HSTORE.parse" => hstore' = HstoreModule)]_vars

\* C1: TEXT.toSql was called on a TEXT with a length and cleared it
C1_Witness ==
  /\ op = "TEXT.toSql"
  /\ Truthy(before._length)
  /\ this = [before EXCEPT !._length = Undefined]
  /\ this # before
  /\ ret = Str("TEXT")

\* one of _length, options.length, _unsigned, _zerofill is set (truthy)
AnySet(dataType) ==
  \/ Truthy(dataType._length)
  \/ Truthy(dataType.options.length)
  \/ Truthy(dataType._unsigned)
  \/ Truthy(dataType._zerofill)

\* C2: a constructed TINYINT, SMALLINT, INTEGER, BIGINT, REAL or DOUBLE has
\* _length, options.length, _unsigned and _zerofill all unset (falsy),
\* whatever the base constructor recorded: if any of the four was set all
\* four are undefined, and if none was set the instance is as the base
\* constructor left it.
C2_IntegerOptionsRemoved ==
  op \in {"new " \o key : key \in IntegerClasses} =>
    /\ ~AnySet(this)
    /\ (AnySet(before) =>
          /\ this._length = Undefined
          /\ this.options.length = Undefined
          /\ this._unsigned = Undefined
          /\ this._zerofill = Undefined
          /\ this = [before EXCEPT !._length = Undefined, !.options.length = Undefined,
                                   !._unsigned = Undefined, !._zerofill = Undefined])
    /\ (~AnySet(before) => this = before)

\* C2: a BIGINT whose base recorded only options.length (and a falsy
\* zerofill) had all four cleared together
C2_Witness ==
  /\ op = "new BIGINT"
  /\ before._length = Undefined
  /\ Truthy(before.options.length)
  /\ before._zerofill = Bool(FALSE)
  /\ this._zerofill = Undefined
  /\ this.options.length = Undefined

\* what the claim says BOOLEAN._sanitize gives for the value v
C3_Expected(v) ==
  IF v \in {Str("true"), Str("t")} THEN Bool(TRUE)
  ELSE IF v \in {Str("false"), Str("f")} THEN Bool(FALSE)
  ELSE IF v = Num(1) THEN Bool(TRUE)
  ELSE IF v = Num(0) THEN Bool(FALSE)
  ELSE IF v.t = "buffer" /\ Len(v.b) = 1
  THEN (IF v.b[1] = 1 THEN Bool(TRUE) ELSE IF v.b[1] = 0 THEN Bool(FALSE) ELSE Num(v.b[1]))
  ELSE v

\* C3: BOOLEAN._sanitize and BOOLEAN.parse give true for 'true', 't' and 1,
\* false for 'false', 'f' and 0, treat a one-byte Buffer as its byte, and
\* return every other value unchanged.
C3_BooleanSanitize ==
  op \in {"BOOLEAN._sanitize", "BOOLEAN.parse"} =>
    /\ Len(args) = 1
    /\ ret = C3_Expected(args[1])

\* C3: BOOLEAN.parse turned the one-byte Buffer <1> into true
C3_Witness ==
  /\ op = "BOOLEAN.parse"
  /\ args = <<Buf(<<1>>)>>
  /\ ret = Bool(TRUE)

\* empty as _.isEmpty has it: undefined, null, '', an array without elements,
\* and every number and boolean
C4_EmptyType(type) ==
  \/ type.t \in {"undefined", "null", "number", "boolean"}
  \/ type = Str("")
  \/ type = Arr(<<>>)

C4_Supported == {Str("POINT"), Str("LINESTRING"), Str("POLYGON")}

\* C4: constructing a dm GEOMETRY succeeds exactly when its type is empty or
\* one of POINT, LINESTRING, POLYGON; toSql then returns the key GEOMETRY for
\* an empty type and the type itself for a supported one; for every other
\* type the constructor throws 'Supported geometry types are: POINT,
\* LINESTRING, POLYGON' and the instance held before is still the one held.
C4_GeometryConstructor ==
  [][/\ (op' = "new dm.GEOMETRY" =>
           /\ (ret'.t # "throw") <=> (C4_EmptyType(before'.type) \/ before'.type \in C4_Supported)
           /\ (ret'.t = "throw" =>
                 /\ ret' = Thrown("Supported geometry types are: POINT, LINESTRING, POLYGON")
                 /\ this' = this)
           /\ (ret'.t # "throw" =>
                 /\ this'.type = before'.type
                 /\ this'.dialect = "dm" /\ this'.key = "GEOMETRY"
                 /\ dm_GEOMETRY_toSql(this').ret =
                      (IF C4_EmptyType(before'.type) THEN Str("GEOMETRY") ELSE before'.type)))
     /\ (op' = "dm.GEOMETRY.toSql" =>
           /\ (C4_EmptyType(this.type) \/ this.type \in C4_Supported)
           /\ ret' = (IF C4_EmptyType(this.type) THEN Str("GEOMETRY") ELSE this.type))]_vars

\* C4: new GEOMETRY('MULTIPOINT') threw while a POLYGON geometry was held
C4_Witness ==
  /\ op = "new dm.GEOMETRY"
  /\ before.type = Str("MULTIPOINT")
  /\ ret = Thrown("Supported geometry types are: POINT, LINESTRING, POLYGON")
  /\ this.dialect = "dm" /\ this.key = "GEOMETRY" /\ this.type = Str("POLYGON")
  /\ this.sqlType = Str("POLYGON")

\* C5: jsonPathExtractionQuery(column, path, isJson) is the quoted column and
\* the brace-wrapped path joined by #> when isJson is true and by #>> when
\* isJson is false or not passed: ('profile', 'id', true) gives
\* ("profile"#>'{id}') and ('profile', 'id') gives ("profile"#>>'{id}').
C5_JsonPathExtraction ==
  op = "jsonPathExtractionQuery" =>
    /\ Len(args) \in {2, 3}
    /\ ret = Str("(\"" \o args[1].s \o "\""
                   \o (IF Len(args) = 3 /\ args[3] = Bool(TRUE) THEN "#>" ELSE "#>>")
                   \o "'{" \o args[2].s \o "}')")
    /\ (args = <<Str("profile"), Str("id"), Bool(TRUE)>> => ret = Str("(\"profile\"#>'{id}')"))
    /\ (args = <<Str("profile"), Str("id"), Bool(FALSE)>> => ret = Str("(\"profile\"#>>'{id}')"))
    /\ (args = <<Str("profile"), Str("id")>> => ret = Str("(\"profile\"#>>'{id}')"))

\* C5: jsonPathExtractionQuery('profile', 'id', true) returned ("profile"#>'{id}')
C5_Witness ==
  /\ op = "jsonPathExtractionQuery"
  /\ args = <<Str("profile"), Str("id"), Bool(TRUE)>>
  /\ ret = Str("(\"profile\"#>'{id}')")
====
